---- MODULE Spec2Model ----
(***************************************************************************)
(* The Filter (src/filter.rs) and the Publisher (src/publisher.rs) of the  *)
(* accountsdb Kafka plugin as a state machine.                             *)
(*                                                                         *)
(* Text (Rust String) is a sequence of ASCII codes, binary data a sequence *)
(* of bytes 0..255, a HashSet a set, Option<T> a record with a `some`      *)
(* flag.  A usize is kept at its full 64-bit width as UsizeLimbs limbs of  *)
(* 16 bits, least significant first, so that `offset + len` overflows      *)
(* where the machine word does.                                            *)
(***************************************************************************)
EXTENDS Integers, Sequences, FiniteSets, TLC

VARIABLES
    config,             \* the Config handed to Filter::new and Publisher::new
    overflow_checks,    \* build profile: TRUE = overflow-checks on (debug)
    filter,             \* the Filter built by Filter::new, or its panic
    call,               \* the call under way or last made, with its arguments
    pc,                 \* "call": the Filter query `call` has yet to run
    ret,                \* what the last call returned
    publisher,          \* the Publisher built by Publisher::new
    counters,           \* UPLOAD_*_TOTAL, by kind and label
    producer,           \* every record handed to producer.send, in order
    history             \* log of the update_* calls: op, event, send outcome

vars ==
    <<config, overflow_checks, filter, call, pc, ret, publisher, counters,
      producer, history>>

(***************************************************************************)
(* Option, Result and panics                                               *)
(***************************************************************************)
None == [some |-> FALSE]

Some(x) == [some |-> TRUE, val |-> x]

\* a call that returned v
Returned(v) == [panic |-> FALSE, val |-> v]

\* a call that unwound with a panic
Panicked == [panic |-> TRUE]

(***************************************************************************)
(* usize: 64-bit machine word                                              *)
(***************************************************************************)
UsizeLimbs == 4

LimbBase == 65536

USIZE_MAX == [i \in 1..UsizeLimbs |-> LimbBase - 1]

\* the usize of a natural number below 2^31
usize(n) ==
    [i \in 1..UsizeLimbs |->
        IF i = 1 THEN n % LimbBase ELSE IF i = 2 THEN n \div LimbBase ELSE 0]

\* the value of a usize as a natural number, for words below 2^31
usize_fits(a) == a[2] < LimbBase \div 2 /\ \A i \in 3..UsizeLimbs : a[i] = 0

usize_nat(a) == a[1] + a[2] * LimbBase

RECURSIVE usize_carry(_, _, _)
\* the carry into limb i of a + b
usize_carry(a, b, i) ==
    IF i = 1 THEN 0
    ELSE (a[i - 1] + b[i - 1] + usize_carry(a, b, i - 1)) \div LimbBase

\* a + b on usize: a panic with overflow checks on, wrapping otherwise
usize_add(a, b, checks) ==
    IF usize_carry(a, b, UsizeLimbs + 1) > 0 /\ checks
    THEN Panicked
    ELSE Returned([i \in 1..UsizeLimbs |->
                     (a[i] + b[i] + usize_carry(a, b, i)) % LimbBase])

RECURSIVE usize_cmp(_, _, _)
\* compares the limbs i, i-1, .., 1 of a and b: 1, 0 or -1
usize_cmp(a, b, i) ==
    IF i = 0 THEN 0
    ELSE IF a[i] > b[i] THEN 1
    ELSE IF a[i] < b[i] THEN -1
    ELSE usize_cmp(a, b, i - 1)

usize_gt(a, b) == usize_cmp(a, b, UsizeLimbs) = 1

\* &data[start..end]: panics when start > end or end > data.len()
slice(data, start, end) ==
    IF usize_gt(start, end) \/ usize_gt(end, usize(Len(data)))
    THEN Panicked
    ELSE Returned(SubSeq(data, usize_nat(start) + 1, usize_nat(end)))

(***************************************************************************)
(* base58 (bs58 crate, Bitcoin alphabet) and Pubkey::from_str              *)
(***************************************************************************)
\* "123456789ABCDEFGHJKLMNPQRSTUVWXYZabcdefghijkmnopqrstuvwxyz"
ALPHABET ==
    <<49, 50, 51, 52, 53, 54, 55, 56, 57, 65, 66, 67, 68, 69, 70, 71, 72,
      74, 75, 76, 77, 78, 80, 81, 82, 83, 84, 85, 86, 87, 88, 89, 90, 97,
      98, 99, 100, 101, 102, 103, 104, 105, 106, 107, 109, 110, 111, 112,
      113, 114, 115, 116, 117, 118, 119, 120, 121, 122>>

\* the digit value of character c, or 255 for a character not in the alphabet
alphabet_decode(c) ==
    IF \E i \in 1..Len(ALPHABET) : ALPHABET[i] = c
    THEN (CHOOSE i \in 1..Len(ALPHABET) : ALPHABET[i] = c) - 1
    ELSE 255

Reverse(s) == [i \in 1..Len(s) |-> s[Len(s) + 1 - i]]

RECURSIVE MulAddRange(_, _, _, _, _, _)
\* the inner loop of decode_into and encode_into over the digits lo..hi of
\* `out` (little endian, base `radix`): each digit d becomes
\* (carry + d * mul) % radix and hands (carry + d * mul) \div radix on.
\* The result is <<the new digits lo..hi, the carry out>>.  The range is
\* halved, not walked, and the left half is computed before the right half
\* reads its carry, to keep the evaluation shallow.
MulAddRange(out, lo, hi, carry, mul, radix) ==
    IF lo > hi THEN <<<<>>, carry>>
    ELSE IF lo = hi
    THEN <<<<(carry + out[lo] * mul) % radix>>,
           (carry + out[lo] * mul) \div radix>>
    ELSE LET mid   == (lo + hi) \div 2
             left  == MulAddRange(out, lo, mid, carry, mul, radix)
         IN  IF left[2] < 0 THEN left
             ELSE LET right == MulAddRange(out, mid + 1, hi, left[2], mul,
                                           radix)
                  IN  <<left[1] \o right[1], right[2]>>

RECURSIVE PushCarry(_, _, _)
\* `while carry > 0 { push carry % radix; carry /= radix }`
PushCarry(out, carry, radix) ==
    IF carry = 0 THEN out
    ELSE PushCarry(Append(out, carry % radix), carry \div radix, radix)

\* one round of the outer loop: out (little endian, base `radix`) * mul + val
MulAdd(out, val, mul, radix) ==
    LET r == MulAddRange(out, 1, Len(out), val, mul, radix)
    IN  PushCarry(r[1], r[2], radix)

RECURSIVE Fold(_, _, _, _, _, _)
\* the outer loop of decode_into and encode_into: MulAdd for each of
\* vals[lo..hi] in turn, from the digits `out` (halved like MulAddRange,
\* the first half computed before the second starts from it)
Fold(vals, lo, hi, out, mul, radix) ==
    IF lo > hi THEN out
    ELSE IF lo = hi THEN MulAdd(out, vals[lo], mul, radix)
    ELSE LET mid == (lo + hi) \div 2
             left == Fold(vals, lo, mid, out, mul, radix)
         IN  IF Len(left) < 0 THEN left
             ELSE Fold(vals, mid + 1, hi, left, mul, radix)

RECURSIVE LeadingCount(_, _)
\* how many leading elements of s equal x
LeadingCount(s, x) ==
    IF s # <<>> /\ Head(s) = x THEN 1 + LeadingCount(Tail(s), x) ELSE 0

\* bs58's decode_into before the leading zeros and the reversal: the bytes
\* (little endian) of the number the characters spell
decode_into(input) ==
    Fold([i \in 1..Len(input) |-> alphabet_decode(input[i])], 1, Len(input),
         <<>>, 58, 256)

\* bs58::decode(input).into_vec() as the crate computes it: Some(bytes), or
\* None for the Err of a non-ASCII character or one outside the alphabet
decode_to_vec(input) ==
    IF \E i \in 1..Len(input) :
           input[i] > 127 \/ alphabet_decode(input[i]) = 255
    THEN None
    ELSE Some([i \in 1..LeadingCount(input, ALPHABET[1]) |-> 0]
              \o Reverse(decode_into(input)))

\* bs58's encode_into before the leading zeros, the alphabet and the
\* reversal: the base-58 digits (little endian) of the number the bytes spell
encode_into(input) == Fold(input, 1, Len(input), <<>>, 256, 58)

\* bs58::encode(input).into_string()
bs58_encode(input) ==
    LET digits == Reverse(encode_into(input))
        text   == [i \in 1..LeadingCount(input, 0) |-> 0] \o digits
    IN  [i \in 1..Len(text) |-> ALPHABET[text[i] + 1]]

(***************************************************************************)
(* The addresses and literals of the tests of src/filter.rs                *)
(***************************************************************************)
\* "Sysvar1111111111111111111111111111111111111"
SysvarText ==
    <<83, 121, 115, 118, 97, 114, 49, 49, 49, 49, 49, 49, 49, 49, 49, 49,
      49, 49, 49, 49, 49, 49, 49, 49, 49, 49, 49, 49, 49, 49, 49, 49, 49,
      49, 49, 49, 49, 49, 49, 49, 49, 49, 49>>

\* Pubkey::from_str("Sysvar1111..").unwrap().to_bytes()
SysvarBytes ==
    <<6, 167, 213, 23, 24, 117, 247, 41, 199, 61, 147, 64, 143, 33, 97, 32,
      6, 126, 216, 140, 118, 224, 140, 40, 127, 193, 148, 96, 0, 0, 0, 0>>

\* "Vote111111111111111111111111111111111111111"
VoteText ==
    <<86, 111, 116, 101, 49, 49, 49, 49, 49, 49, 49, 49, 49, 49, 49, 49, 49,
      49, 49, 49, 49, 49, 49, 49, 49, 49, 49, 49, 49, 49, 49, 49, 49, 49,
      49, 49, 49, 49, 49, 49, 49, 49, 49>>

\* Pubkey::from_str("Vote1111..").unwrap().to_bytes()
VoteBytes ==
    <<7, 97, 72, 29, 53, 116, 116, 187, 124, 77, 118, 36, 235, 211, 189,
      179, 216, 53, 94, 115, 209, 16, 67, 252, 13, 163, 83, 128, 0, 0, 0,
      0>>

\* "9xQeWvG816bUx9EPjHmaT23yvVM2ZWbrrpZb9PusVFin"
SerumText ==
    <<57, 120, 81, 101, 87, 118, 71, 56, 49, 54, 98, 85, 120, 57, 69, 80,
      106, 72, 109, 97, 84, 50, 51, 121, 118, 86, 77, 50, 90, 87, 98, 114,
      114, 112, 90, 98, 57, 80, 117, 115, 86, 70, 105, 110>>

\* Pubkey::from_str("9xQeWvG8..").unwrap().to_bytes()
SerumBytes ==
    <<133, 15, 45, 110, 2, 164, 122, 248, 36, 208, 154, 182, 157, 196, 45,
      112, 203, 40, 203, 250, 36, 159, 183, 238, 87, 185, 210, 86, 193, 39,
      98, 239>>

\* Pubkey::from_str("cndy3Z4yapfJBmL3ShUp5exZKqR3z33thTzeNMm2gRZ")
\*     .unwrap().to_bytes()
CndyBytes ==
    <<9, 42, 238, 61, 252, 45, 14, 85, 120, 35, 19, 131, 121, 105, 234, 245,
      33, 81, 192, 150, 192, 107, 92, 42, 130, 240, 134, 165, 3, 232, 44,
      52>>

\* "5KKsLVU6TcbVDK4BS6K1DGDxnh4Q9xjYJ8XaDCG5t8ht"
AccountText ==
    <<53, 75, 75, 115, 76, 86, 85, 54, 84, 99, 98, 86, 68, 75, 52, 66, 83,
      54, 75, 49, 68, 71, 68, 120, 110, 104, 52, 81, 57, 120, 106, 89, 74,
      56, 88, 97, 68, 67, 71, 53, 116, 56, 104, 116>>

\* Pubkey::from_str("5KKsLVU6..").unwrap().to_bytes()
AccountBytes ==
    <<64, 32, 137, 70, 83, 207, 221, 250, 123, 126, 96, 201, 102, 104, 39,
      54, 162, 219, 15, 131, 133, 100, 146, 91, 17, 7, 122, 33, 224, 54,
      215, 151>>

\* the rule of test_filter_v2
RuleV2 ==
    [program_id |-> SysvarText, data_size |-> Some(32), lamports |-> None,
     memcmp |-> Some(<<[offset |-> usize(0), bytes |-> SerumText]>>)]

(***************************************************************************)
(* Further configured rules, as Filter::new may be handed them             *)
(***************************************************************************)
\* a rule on program and lamports only
RuleLamports ==
    [program_id |-> SerumText, data_size |-> None, lamports |-> Some(10),
     memcmp |-> None]

\* program_id "abcd" (3 bytes: no address); memcmp "1" = [0] at 0 and
\* "5T" = [1, 2] at 1
RuleUnparsable ==
    [program_id |-> <<97, 98, 99, 100>>, data_size |-> Some(3),
     lamports |-> None,
     memcmp |-> Some(<<[offset |-> usize(0), bytes |-> <<49>>],
                       [offset |-> usize(1), bytes |-> <<53, 84>>]>>)]

\* program_id "0" (not base58); memcmp with the empty literal ""
RuleEmptyPattern ==
    [program_id |-> <<48>>, data_size |-> None, lamports |-> None,
     memcmp |-> Some(<<[offset |-> usize(0), bytes |-> <<>>]>>)]

\* memcmp "Ldp" = [1, 2, 3] at offset usize::MAX
RuleHugeOffset ==
    [program_id |-> SerumText, data_size |-> None, lamports |-> None,
     memcmp |-> Some(<<[offset |-> USIZE_MAX, bytes |-> <<76, 100, 112>>]>>)]

\* memcmp with the literal "0l", which is not base58
RuleBadLiteral ==
    [program_id |-> SerumText, data_size |-> None, lamports |-> None,
     memcmp |-> Some(<<[offset |-> usize(0), bytes |-> <<48, 108>>]>>)]

RuleTexts ==
    {RuleV2, RuleLamports, RuleUnparsable, RuleEmptyPattern, RuleHugeOffset,
     RuleBadLiteral}

\* longest configured rule list explored
MaxRules == 2

RuleLists == UNION {[1..n -> RuleTexts] : n \in 0..MaxRules}

\* the three address lists of a Config
AddressLists ==
    { \* Config::default()
      [program_ignores |-> <<>>, program_filters |-> <<>>,
       account_filters |-> <<>>],
      \* the lists of test_filter_v2, test_owner_filter, test_account_filter
      [program_ignores |-> <<SysvarText, VoteText>>,
       program_filters |-> <<SerumText>>,
       account_filters |-> <<AccountText>>],
      \* an address both ignored and allowed, and the malformed address "0"
      [program_ignores |-> <<VoteText, <<48>> >>,
       program_filters |-> <<VoteText, SerumText>>,
       account_filters |-> <<>>] }

\* every text a Config holds
ConfiguredTexts ==
    UNION {{l.program_ignores[i] : i \in 1..Len(l.program_ignores)}
           \cup {l.program_filters[i] : i \in 1..Len(l.program_filters)}
           \cup {l.account_filters[i] : i \in 1..Len(l.account_filters)} :
           l \in AddressLists}
    \cup {r.program_id : r \in RuleTexts}
    \cup UNION {{r.memcmp.val[i].bytes : i \in 1..Len(r.memcmp.val)} :
                r \in {q \in RuleTexts : q.memcmp.some}}

\* each configured text with what it decodes to, computed once
Decoded == {<<t, decode_to_vec(t)>> : t \in ConfiguredTexts}

\* bs58::decode(input).into_vec()
bs58_decode(input) ==
    IF \E d \in Decoded : d[1] = input
    THEN (CHOOSE d \in Decoded : d[1] = input)[2]
    ELSE decode_to_vec(input)

\* Pubkey::from_str(s).ok().map(|p| p.to_bytes())
Pubkey_from_str(s) ==
    IF Len(s) > 44 THEN None
    ELSE LET v == bs58_decode(s)
         IN  IF v.some /\ Len(v.val) = 32 THEN v ELSE None

(***************************************************************************)
(* Filter (src/filter.rs)                                                  *)
(***************************************************************************)
\* config.<list>.iter().flat_map(|p| Pubkey::from_str(p).ok()...).collect():
\* the set of the addresses that parse; the others are dropped
AddressSet(texts) ==
    {key.val : key \in {k \in {Pubkey_from_str(texts[i]) : i \in 1..Len(texts)} :
                            k.some}}

\* rule_program_id, were a text that does not parse to give the all-zero
\* address instead of no address
rule_program_id_zeroed(text) ==
    IF Pubkey_from_str(text).some THEN Pubkey_from_str(text)
    ELSE Some([i \in 1..32 |-> 0])

\* the program id of a built rule: None when the text does not parse
rule_program_id(text) == Pubkey_from_str(text)

\* one FiltersMemcmp of a built rule; the pattern is None when the literal
\* does not decode (the panic of line 78)
new_memcmp(cmp) == [offset |-> cmp.offset, bytes |-> bs58_decode(cmp.bytes)]

\* the closure of Filter::new that builds one FiltersAccounts
new_rule(f) ==
    [program_id |-> rule_program_id(f.program_id),
     data_size  |-> f.data_size,
     lamports   |-> f.lamports,
     memcmp     |-> IF f.memcmp.some
                    THEN Some([i \in 1..Len(f.memcmp.val) |->
                                  new_memcmp(f.memcmp.val[i])])
                    ELSE None]

\* whether building this rule panics: some memcmp literal fails to decode
rule_panics(r) ==
    r.memcmp.some /\ \E i \in 1..Len(r.memcmp.val) : ~r.memcmp.val[i].bytes.some

\* the rule as stored: each pattern unwrapped to its decoded bytes
stored_rule(r) ==
    [r EXCEPT !.memcmp =
        IF r.memcmp.some
        THEN Some([i \in 1..Len(r.memcmp.val) |->
                      [offset |-> r.memcmp.val[i].offset,
                       bytes  |-> r.memcmp.val[i].bytes.val]])
        ELSE None]

\* Filter::new(config): the Filter, or the panic of a malformed literal
Filter_new(c) ==
    LET rules == [i \in 1..Len(c.filters) |-> new_rule(c.filters[i])]
    IN  IF \E i \in 1..Len(rules) : rule_panics(rules[i])
        THEN Panicked
        ELSE Returned(
               [program_ignores |-> AddressSet(c.program_ignores),
                program_filters |-> AddressSet(c.program_filters),
                account_filters |-> AddressSet(c.account_filters),
                filters |-> [i \in 1..Len(rules) |-> stored_rule(rules[i])]])

\* is_key, were the width check to let shorter slices through
is_key_at_most_32(bytes) == Len(bytes) <= 32

\* <&[u8; 32]>::try_from(bytes).is_ok()
is_key(bytes) == Len(bytes) = 32

\* wants_program, were the allow set consulted before the ignore set
wants_program_allow_first(self, program) ==
    IF ~is_key(program) THEN TRUE
    ELSE program \in self.program_filters
         \/ (self.program_filters = {} /\ program \notin self.program_ignores)

\* Filter::wants_program
wants_program(self, program) ==
    IF ~is_key(program) THEN TRUE
    ELSE program \notin self.program_ignores
         /\ (self.program_filters = {} \/ program \in self.program_filters)

\* Filter::wants_account
wants_account(self, account) ==
    IF ~is_key(account) THEN TRUE
    ELSE account \in self.account_filters

\* one memcmp clause of the inner loop: "next" (the clause holds, go on to
\* the next one), "break" (is_match_memcmp = false) or "panic"
memcmp_clause(memcmp, data, checks) ==
    IF Len(memcmp.bytes) = 0 THEN "break"
    ELSE LET end == usize_add(memcmp.offset, usize(Len(memcmp.bytes)), checks)
         IN  IF end.panic THEN "panic"
             ELSE IF usize_gt(end.val, usize(Len(data))) THEN "break"
             ELSE LET s == slice(data, memcmp.offset, end.val)
                  IN  IF s.panic THEN "panic"
                      ELSE IF memcmp.bytes # s.val THEN "break"
                      ELSE "next"

RECURSIVE memcmp_loop(_, _, _, _)
\* `for memcmp in memcmp_vec` from clause i on: is_match_memcmp, or "panic"
memcmp_loop(memcmp_vec, i, data, checks) ==
    IF i > Len(memcmp_vec) THEN "true"
    ELSE LET c == memcmp_clause(memcmp_vec[i], data, checks)
         IN  IF c = "next" THEN memcmp_loop(memcmp_vec, i + 1, data, checks)
             ELSE IF c = "break" THEN "false"
             ELSE "panic"

\* the program-id predicate of a rule (the first match of the loop body)
program_id_matches(rule, program_input) ==
    IF rule.program_id.some THEN program_input = rule.program_id.val ELSE TRUE

\* the body of `for filter in &self.filters` for one rule:
\* "return" (return true), "continue" or "panic"
rule_step(rule, program_input, data, lamports, checks) ==
    IF ~program_id_matches(rule, program_input) THEN "continue"
    ELSE IF rule.lamports.some /\ rule.lamports.val # lamports THEN "continue"
    ELSE IF rule.data_size.some /\ Len(data) # rule.data_size.val
         THEN "continue"
    ELSE IF rule.memcmp.some
         THEN LET m == memcmp_loop(rule.memcmp.val, 1, data, checks)
              IN  IF m = "panic" THEN "panic"
                  ELSE IF m = "false" THEN "continue"
                  ELSE "return"
    ELSE "return"

RECURSIVE rules_loop(_, _, _, _, _, _)
\* `for filter in &self.filters` from rule i on, then `return false`
rules_loop(filters, i, program_input, data, lamports, checks) ==
    IF i > Len(filters) THEN Returned(FALSE)
    ELSE LET s == rule_step(filters[i], program_input, data, lamports, checks)
         IN  IF s = "return" THEN Returned(TRUE)
             ELSE IF s = "panic" THEN Panicked
             ELSE rules_loop(filters, i + 1, program_input, data, lamports,
                             checks)

\* wants_filter, were the ignore set not consulted
wants_filter_no_ignores(self, program, data, lamports, checks) ==
    IF ~is_key(program) THEN Returned(TRUE)
    ELSE rules_loop(self.filters, 1, program, data, lamports, checks)

\* Filter::wants_filter
wants_filter(self, program, data, lamports, checks) ==
    IF ~is_key(program) THEN Returned(TRUE)
    ELSE IF program \in self.program_ignores THEN Returned(FALSE)
    ELSE rules_loop(self.filters, 1, program, data, lamports, checks)

\* "acct", "slot", "tx"
Topics ==
    [update_account_topic |-> <<97, 99, 99, 116>>,
     slot_status_topic    |-> <<115, 108, 111, 116>>,
     transaction_topic    |-> <<116, 120>>]

\* a Config: the fields Filter::new and Publisher::new read
Config(lists, rules, separate, wrap) ==
    [program_ignores |-> lists.program_ignores,
     program_filters |-> lists.program_filters,
     account_filters |-> lists.account_filters,
     filters |-> rules,
     update_account_topic |-> Topics.update_account_topic,
     slot_status_topic |-> Topics.slot_status_topic,
     transaction_topic |-> Topics.transaction_topic,
     publish_separate_program |-> separate,
     wrap_messages |-> wrap]

\* the arguments the pipeline calls the Filter with
ProgramArgs ==
    {SysvarBytes, SerumBytes, VoteBytes, CndyBytes, <<>>,
     SubSeq(SerumBytes, 1, 31)}

OwnerArgs ==
    {SysvarBytes, SerumBytes, CndyBytes, <<>>, SubSeq(SerumBytes, 1, 31),
     SerumBytes \o <<0>>}

AccountArgs == {AccountBytes, SerumBytes, <<>>, SysvarBytes \o <<0>>}

DataArgs ==
    {<<>>, <<0, 1, 2>>, <<1, 2, 3>>, SerumBytes, SubSeq(SerumBytes, 1, 16),
     SysvarBytes}

LamportsArgs == {10, 11}

\* the queries the pipeline makes of the Filter
FilterCalls ==
    [op : {"wants_program"}, program : ProgramArgs]
    \cup [op : {"wants_filter"}, program : OwnerArgs, data : DataArgs,
          lamports : LamportsArgs]
    \cup [op : {"wants_account"}, account : AccountArgs]

NoCall == [op |-> "none"]

(***************************************************************************)
(* Publisher (src/publisher.rs)                                            *)
(***************************************************************************)
\* Publisher::new: the fields kept from the Config
Publisher_new(c) ==
    [update_account_topic     |-> c.update_account_topic,
     slot_status_topic        |-> c.slot_status_topic,
     transaction_topic        |-> c.transaction_topic,
     publish_separate_program |-> c.publish_separate_program,
     wrap_messages            |-> c.wrap_messages]

\* copy_and_prepend, were the prefix pushed after the data
copy_and_append(data, prefix) == data \o <<prefix>>

\* Publisher::copy_and_prepend
copy_and_prepend(data, prefix) == <<prefix>> \o data

\* u64::to_le_bytes, for slots below 2^31
to_le_bytes(n) ==
    <<n % 256, (n \div 256) % 256, (n \div 65536) % 256,
      (n \div 16777216) % 256, 0, 0, 0, 0>>

\* prost's Message::encode_to_vec: the encoding of a message, kept opaque
encode_to_vec(message) == <<"encoded", message>>

\* Publisher::encode_with_wrapper
encode_with_wrapper(kind, ev) ==
    encode_to_vec([event_message |-> Some([kind |-> kind, event |-> ev])])

\* the key tags of envelope mode
ACCOUNT_TAG == 65

SLOT_TAG == 83

TRANSACTION_TAG == 84

\* the topic the unfinished variant of update_account derives
topic_with_suffix(self, ev) ==
    IF self.publish_separate_program
    THEN self.update_account_topic \o <<45>> \o bs58_encode(ev.owner)
    ELSE self.update_account_topic

\* the record update_account builds
account_record(self, ev) ==
    [topic   |-> self.update_account_topic,
     key     |-> IF self.wrap_messages
                 THEN copy_and_prepend(ev.pubkey, ACCOUNT_TAG)
                 ELSE ev.pubkey,
     payload |-> IF self.wrap_messages
                 THEN encode_with_wrapper("Account", ev)
                 ELSE encode_to_vec(ev)]

\* the record update_slot_status builds
slot_record(self, ev) ==
    [topic   |-> self.slot_status_topic,
     key     |-> IF self.wrap_messages
                 THEN copy_and_prepend(to_le_bytes(ev.slot), SLOT_TAG)
                 ELSE to_le_bytes(ev.slot),
     payload |-> IF self.wrap_messages
                 THEN encode_with_wrapper("Slot", ev)
                 ELSE encode_to_vec(ev)]

\* the record update_transaction builds
transaction_record(self, ev) ==
    [topic   |-> self.transaction_topic,
     key     |-> IF self.wrap_messages
                 THEN copy_and_prepend(ev.signature, TRANSACTION_TAG)
                 ELSE ev.signature,
     payload |-> IF self.wrap_messages
                 THEN encode_with_wrapper("Transaction", ev)
                 ELSE encode_to_vec(ev)]

\* outcome_label, were the outcome of the send not looked at
outcome_label_success(is_ok) == "success"

\* the label of the counter to increment
outcome_label(is_ok) == IF is_ok THEN "success" ELSE "failed"

\* result.with_context(..): Ok(()), or the error with its context
with_context(is_ok, what, topic) ==
    IF is_ok THEN [ok |-> TRUE]
    ELSE [ok |-> FALSE, context |-> <<"Failed to send", what, "to topic:", topic>>]

\* the events the pipeline publishes
AccountEvents ==
    {[pubkey |-> AccountBytes, owner |-> SysvarBytes],
     [pubkey |-> CndyBytes, owner |-> SerumBytes]}

SlotEvents == {[slot |-> 0], [slot |-> 66051]}

TransactionEvents == {[signature |-> <<7, 7, 9>>], [signature |-> <<9>>]}

\* most update_* calls explored
MaxCalls == 3

Kinds == {"accounts", "slots", "transactions"}

Labels == {"success", "failed"}

(***************************************************************************)
(* The state machine                                                       *)
(***************************************************************************)
\* the state after Filter::new and Publisher::new, for one Config and build,
\* with the Filter query `query` about to be made (none after a panic)
Built(c, checks, new_filter, query) ==
    /\ config = c
    /\ overflow_checks = checks
    /\ filter = new_filter
    /\ publisher = Publisher_new(c)
    /\ call = IF new_filter.panic THEN NoCall ELSE query
    /\ pc = IF new_filter.panic \/ query = NoCall THEN "done" ELSE "call"
    /\ ret = Returned("none")
    /\ counters = [k \in Kinds |-> [l \in Labels |-> 0]]
    /\ producer = <<>>
    /\ history = <<>>

NoAddressLists ==
    [program_ignores |-> <<>>, program_filters |-> <<>>,
     account_filters |-> <<>>]

Init ==
    \E lists \in AddressLists, rules \in RuleLists,
       separate \in BOOLEAN, wrap \in BOOLEAN, checks \in BOOLEAN :
        LET c == Config(lists, rules, separate, wrap)
            f == Filter_new(c)
        IN  \E query \in FilterCalls \cup {NoCall} : Built(c, checks, f, query)

\* the Filter under every configuration, the Publisher left at its default
FilterInit ==
    \E lists \in AddressLists, rules \in RuleLists, checks \in BOOLEAN :
        LET c == Config(lists, rules, FALSE, FALSE)
            f == Filter_new(c)
        IN  \E query \in FilterCalls : Built(c, checks, f, query)

\* the Publisher under every routing and envelope mode, no filter configured
PublisherInit ==
    \E separate \in BOOLEAN, wrap \in BOOLEAN :
        LET c == Config(NoAddressLists, <<>>, separate, wrap)
        IN  Built(c, FALSE, Filter_new(c), NoCall)

UnchangedFilter == UNCHANGED <<config, overflow_checks, filter>>

UnchangedPublisher == UNCHANGED <<publisher, counters, producer, history>>

WantsProgram ==
    /\ pc = "call" /\ call.op = "wants_program"
    /\ ret' = Returned(wants_program(filter.val, call.program))
    /\ pc' = "done"
    /\ UNCHANGED call /\ UnchangedFilter /\ UnchangedPublisher

WantsFilter ==
    /\ pc = "call" /\ call.op = "wants_filter"
    /\ ret' = wants_filter(filter.val, call.program, call.data,
                           call.lamports, overflow_checks)
    /\ pc' = "done"
    /\ UNCHANGED call /\ UnchangedFilter /\ UnchangedPublisher

WantsAccount ==
    /\ pc = "call" /\ call.op = "wants_account"
    /\ ret' = Returned(wants_account(filter.val, call.account))
    /\ pc' = "done"
    /\ UNCHANGED call /\ UnchangedFilter /\ UnchangedPublisher

\* the tail the three update_* share: producer.send(record), the counter of
\* the kind under the label of the outcome, the result with its context
Send(kind, what, record, is_ok) ==
    /\ producer' = Append(producer, record)
    /\ counters' = [counters EXCEPT ![kind][outcome_label(is_ok)] = @ + 1]
    /\ ret' = Returned(with_context(is_ok, what, record.topic))

UpdateAccount ==
    \E ev \in AccountEvents, is_ok \in BOOLEAN :
        /\ pc = "done" /\ Len(history) < MaxCalls
        /\ call' = [op |-> "update_account", ev |-> ev]
        /\ history' = Append(history, [op |-> "update_account", ev |-> ev,
                                       is_ok |-> is_ok])
        /\ Send("accounts", "account", account_record(publisher, ev), is_ok)
        /\ UNCHANGED <<publisher, pc>> /\ UnchangedFilter

UpdateSlotStatus ==
    \E ev \in SlotEvents, is_ok \in BOOLEAN :
        /\ pc = "done" /\ Len(history) < MaxCalls
        /\ call' = [op |-> "update_slot_status", ev |-> ev]
        /\ history' = Append(history, [op |-> "update_slot_status", ev |-> ev,
                                       is_ok |-> is_ok])
        /\ Send("slots", "slot status", slot_record(publisher, ev), is_ok)
        /\ UNCHANGED <<publisher, pc>> /\ UnchangedFilter

UpdateTransaction ==
    \E ev \in TransactionEvents, is_ok \in BOOLEAN :
        /\ pc = "done" /\ Len(history) < MaxCalls
        /\ call' = [op |-> "update_transaction", ev |-> ev]
        /\ history' = Append(history, [op |-> "update_transaction", ev |-> ev,
                                       is_ok |-> is_ok])
        /\ Send("transactions", "transaction",
                transaction_record(publisher, ev), is_ok)
        /\ UNCHANGED <<publisher, pc>> /\ UnchangedFilter

FilterNext == WantsProgram \/ WantsFilter \/ WantsAccount

PublisherNext == UpdateAccount \/ UpdateSlotStatus \/ UpdateTransaction

Next == FilterNext \/ PublisherNext

Spec == Init /\ [][Next]_vars

FilterSpec == FilterInit /\ [][FilterNext]_vars

PublisherSpec == PublisherInit /\ [][PublisherNext]_vars

(***************************************************************************)
(* What the claims speak of, stated on the arguments and the sets alone    *)
(***************************************************************************)
\* the Filter query `op` has returned or panicked
Done(op) == pc = "done" /\ call.op = op /\ ~filter.panic

\* a well-formed address: exactly 32 bytes
WellFormed(address) == Len(address) = 32

\* a memcmp clause is satisfied: the pattern is not empty, lies within the
\* data and equals the bytes there (an offset of 2^31 or more lies outside)
ClauseSatisfied(m, data) ==
    /\ Len(m.bytes) > 0
    /\ usize_fits(m.offset)
    /\ usize_nat(m.offset) + Len(m.bytes) <= Len(data)
    /\ \A k \in 1..Len(m.bytes) : data[usize_nat(m.offset) + k] = m.bytes[k]

\* a memcmp clause with a non-empty pattern that reaches past the data
ClauseOutOfBounds(m, data) ==
    /\ Len(m.bytes) > 0
    /\ (usize_fits(m.offset) =>
            usize_nat(m.offset) + Len(m.bytes) > Len(data))

\* the lamports, data_size and memcmp predicates of a rule are satisfied
OtherPredicatesSatisfied(r, data, lamports) ==
    /\ r.lamports.some => r.lamports.val = lamports
    /\ r.data_size.some => r.data_size.val = Len(data)
    /\ r.memcmp.some =>
           \A i \in 1..Len(r.memcmp.val) : ClauseSatisfied(r.memcmp.val[i], data)

\* a rule is fully satisfied
RuleSatisfied(r, program, data, lamports) ==
    /\ r.program_id.some => r.program_id.val = program
    /\ OtherPredicatesSatisfied(r, data, lamports)

\* some rule before rule i panics on the arguments of the call
PanicBefore(i) ==
    \E j \in 1..(i - 1) :
        rule_step(filter.val.filters[j], call.program, call.data,
                  call.lamports, overflow_checks) = "panic"

\* C1: for a well-formed program address outside the ignore set,
\* wants_filter returns true if and only if some configured rule is fully
\* satisfied (so false with no rules, and never true through a rule with an
\* empty memcmp pattern).
C1_WantsFilterIffRuleSatisfied ==
    (Done("wants_filter") /\ WellFormed(call.program)
     /\ call.program \notin filter.val.program_ignores)
    => ret = Returned(\E i \in 1..Len(filter.val.filters) :
                          RuleSatisfied(filter.val.filters[i], call.program,
                                        call.data, call.lamports))

C3_MatchingRuleAccepted ==
    (Done("wants_filter") /\ WellFormed(call.program)
     /\ \E i \in 1..Len(filter.val.filters) :
            LET r == filter.val.filters[i]
            IN  /\ r.program_id = Some(call.program)
                /\ ~r.lamports.some
                /\ r.data_size = Some(Len(call.data))
                /\ r.memcmp.some
                /\ \A k \in 1..Len(r.memcmp.val) :
                       ClauseSatisfied(r.memcmp.val[k], call.data)
                /\ ~PanicBefore(i))
    => ret = Returned(TRUE)

\* C4: for a well-formed address a, wants_program(a) is: a is not ignored
\* and (the allow set is empty or a is in it).
C4_WantsProgram ==
    (Done("wants_program") /\ WellFormed(call.program))
    => ret = Returned(/\ call.program \notin filter.val.program_ignores
                      /\ \/ filter.val.program_filters = {}
                         \/ call.program \in filter.val.program_filters)

\* C4 witness: an address both ignored and allow-listed was rejected
C4_Witness ==
    /\ Done("wants_program") /\ WellFormed(call.program)
    /\ call.program \in filter.val.program_ignores
    /\ call.program \in filter.val.program_filters
    /\ ret = Returned(FALSE)

\* C5: for an address argument that is not exactly 32 bytes long,
\* wants_program, wants_filter and wants_account all return true, whatever
\* the sets, the rules, the data and the lamports.
C5_FailOpen ==
    /\ (Done("wants_program") /\ ~WellFormed(call.program))
           => ret = Returned(TRUE)
    /\ (Done("wants_filter") /\ ~WellFormed(call.program))
           => ret = Returned(TRUE)
    /\ (Done("wants_account") /\ ~WellFormed(call.account))
           => ret = Returned(TRUE)

\* C5 witness: wants_account accepted a 33-byte address with an empty
\* account allow set
C5_Witness ==
    /\ Done("wants_account") /\ Len(call.account) = 33
    /\ filter.val.account_filters = {}
    /\ ret = Returned(TRUE)

\* C6: a memcmp clause with a non-empty pattern and offset + pattern.len()
\* beyond data.len(), for any offset of the word, never makes wants_filter
\* fail, and the rule holding it is skipped.
C6_OutOfBoundsClauseSkipped ==
    (Done("wants_filter") /\ WellFormed(call.program)
     /\ call.program \notin filter.val.program_ignores)
    => /\ ~ret.panic
       /\ \A i \in 1..Len(filter.val.filters) :
              LET r == filter.val.filters[i]
              IN  (r.memcmp.some
                   /\ \E k \in 1..Len(r.memcmp.val) :
                          ClauseOutOfBounds(r.memcmp.val[k], call.data))
                  => rule_step(r, call.program, call.data, call.lamports,
                               overflow_checks) = "continue"

\* the program_id text of the configured rule i is no address
Unparsable(i) == ~Pubkey_from_str(config.filters[i].program_id).some

\* some configured memcmp literal is not base58
MalformedLiteral ==
    \E i \in 1..Len(config.filters) :
        /\ config.filters[i].memcmp.some
        /\ \E k \in 1..Len(config.filters[i].memcmp.val) :
               ~bs58_decode(config.filters[i].memcmp.val[k].bytes).some

\* C10: Filter::new fails only on a malformed memcmp literal; a rule whose
\* program_id text is no address is kept, with an absent program id, and
\* its program predicate holds of every well-formed, non-ignored program:
\* the rule matches whenever its other predicates do.
C10_UnparsableProgramIdIsWildcard ==
    /\ filter.panic <=> MalformedLiteral
    /\ ~filter.panic =>
        /\ Len(filter.val.filters) = Len(config.filters)
        /\ \A i \in 1..Len(config.filters) :
               Unparsable(i) =>
                 /\ filter.val.filters[i].program_id = None
                 /\ (Done("wants_filter") /\ WellFormed(call.program)
                     /\ call.program \notin filter.val.program_ignores
                     /\ OtherPredicatesSatisfied(filter.val.filters[i],
                                                 call.data, call.lamports))
                    => /\ rule_step(filter.val.filters[i], call.program,
                                    call.data, call.lamports,
                                    overflow_checks) = "return"
                       /\ ~PanicBefore(i) => ret = Returned(TRUE)

\* C10 witness: the only rule has the program_id text "abcd", and an update
\* owned by a program no rule names was accepted through it
C10_Witness ==
    /\ Done("wants_filter")
    /\ Len(config.filters) = 1 /\ Unparsable(1)
    /\ config.filters[1].program_id # <<>>
    /\ call.program = CndyBytes
    /\ ret = Returned(TRUE)

\* the bytes that identify the event of the k-th update_* call
IdentifyingBytes(k) ==
    IF history[k].op = "update_account" THEN history[k].ev.pubkey
    ELSE IF history[k].op = "update_transaction" THEN history[k].ev.signature
    ELSE [i \in 1..8 |->
             IF i = 1 THEN history[k].ev.slot % 256
             ELSE IF i = 2 THEN (history[k].ev.slot \div 256) % 256
             ELSE IF i = 3 THEN (history[k].ev.slot \div (256 * 256)) % 256
             ELSE IF i = 4
                  THEN (history[k].ev.slot \div (256 * 256 * 256)) % 256
             ELSE 0]

\* the kind tag of the k-th update_* call: 'A', 'S' or 'T'
KindTag(k) ==
    IF history[k].op = "update_account" THEN 65
    ELSE IF history[k].op = "update_slot_status" THEN 83
    ELSE 84

\* how many of the update_* calls so far were `op` with send outcome is_ok
Count(op, is_ok) ==
    Cardinality({k \in 1..Len(history) :
                    history[k].op = op /\ history[k].is_ok = is_ok})

OpOfKind ==
    [accounts |-> "update_account", slots |-> "update_slot_status",
     transactions |-> "update_transaction"]

\* C7: with per-program routing on, update_account sends to
\* base_topic + "-" + base58(owner), and to base_topic with it off; updates
\* of different owners go to different topics, and the topic the error
\* names is the topic used.
C7_PerProgramTopic ==
    \A k \in 1..Len(history) :
        history[k].op = "update_account" =>
            /\ producer[k].topic
                   = (IF publisher.publish_separate_program
                      THEN publisher.update_account_topic \o <<45>>
                           \o bs58_encode(history[k].ev.owner)
                      ELSE publisher.update_account_topic)
            /\ (k = Len(history) /\ ~ret.val.ok)
                   => ret.val.context[4] = producer[k].topic
            /\ \A j \in 1..Len(history) :
                   (publisher.publish_separate_program
                    /\ history[j].op = "update_account"
                    /\ history[j].ev.owner # history[k].ev.owner)
                   => producer[j].topic # producer[k].topic

\* C8, in every state: one record handed to the producer per call, each
\* counter equal to the number of calls of its kind with its outcome, and the
\* last call returned an error exactly if its send failed.
C8_Counted ==
    /\ Len(producer) = Len(history)
    /\ \A kind \in Kinds :
           /\ counters[kind]["success"] = Count(OpOfKind[kind], TRUE)
           /\ counters[kind]["failed"] = Count(OpOfKind[kind], FALSE)
    /\ history # <<>> =>
           /\ call.op = history[Len(history)].op
           /\ ret.val.ok = history[Len(history)].is_ok

\* C8, in every step: an update_* call hands over exactly one record and
\* adds exactly one to exactly one counter, that of its kind and outcome; no
\* counter ever decreases.
C8_Step ==
    /\ \A kind \in Kinds, l \in Labels : counters'[kind][l] >= counters[kind][l]
    /\ history' # history =>
           /\ Len(producer') = Len(producer) + 1
           /\ \E kind \in Kinds :
                  /\ OpOfKind[kind] = call'.op
                  /\ counters' =
                         [counters EXCEPT
                             ![kind][IF ret'.val.ok THEN "success"
                                     ELSE "failed"] = @ + 1]

\* C8: every update_* call hands exactly one record to the producer, then
\* increments exactly the counter of its kind under "success" if the send
\* was accepted and "failed" otherwise, and returns an error if and only if
\* the send failed; so per kind and label the count equals the number of such
\* calls, other counters are unchanged, and no counter decreases.
C8_OneRecordOneCounter == []C8_Counted /\ [][C8_Step]_vars

\* C8 witness: two account sends succeeded, one slot send failed
C8_Witness ==
    /\ Len(history) = 3
    /\ counters["accounts"]["success"] = 2
    /\ counters["slots"]["failed"] = 1
    /\ ~ret.val.ok

\* C9: the key is the identifying bytes (account address, 8-byte
\* little-endian slot, signature) with envelope mode off, and one tag byte
\* (65, 83, 84 for Account, Slot, Transaction) followed by the same bytes
\* with it on; the key depends on the event and the mode only.
C9_Key ==
    \A k \in 1..Len(history) :
        LET key == producer[k].key
            id  == IdentifyingBytes(k)
        IN  /\ ~publisher.wrap_messages => key = id
            /\ publisher.wrap_messages =>
                   /\ Len(key) = 1 + Len(id)
                   /\ key[1] = KindTag(k)
                   /\ SubSeq(key, 2, Len(key)) = id
            /\ \A j \in 1..Len(history) :
                   (history[j].op = history[k].op
                    /\ history[j].ev = history[k].ev)
                   => producer[j].key = key

\* C9 witness: in envelope mode slot 66051 = 0x010203 went out under the key
\* 'S', 3, 2, 1, 0, 0, 0, 0, 0 and an account under 'A' and its address
C9_Witness ==
    /\ publisher.wrap_messages
    /\ \E k \in 1..Len(history) :
           /\ history[k].op = "update_slot_status"
           /\ producer[k].key = <<83, 3, 2, 1, 0, 0, 0, 0, 0>>
    /\ \E k \in 1..Len(history) :
           /\ history[k].op = "update_account"
           /\ producer[k].key = <<65>> \o history[k].ev.pubkey

====
